---- MODULE Spec2Model ----
(***************************************************************************)
(* Lifecycle and resource orchestration of the jubatest harness:           *)
(* lib/jubatest/entity.py (JubaNode, JubaRPCServer, JubaServer, JubaProxy) *)
(* and the process handle the service instances supervise.                 *)
(***************************************************************************)
EXTENDS Integers, Sequences, FiniteSets, TLC

\* ------------------------------------------------------------------ bounds
\* Port numbers a topology may name: 1..MaxPort.
MaxPort == 2
\* Successful lease_port calls made directly on the pool.
MaxLeases == 3
\* Clustered servers built in one test case (the router-proxy is one more).
NServers == 2
\* Options an instance may be configured with.
MaxOpts == 3
\* Processes one LocalSubprocess handle may spawn.
MaxSpawns == 8
\* cluster() calls made on one coordinator.
MaxClusters == 3

\* ------------------------------------------------------- program constants
\* Python's None, for a port, an identifier cache or a handle reference.
None == 0
\* JubaRPCServer.start: first readiness delay, in microseconds.
StartDelay == 20000
\* JubaRPCServer.start: number of readiness attempts.
StartAttempts == 8
\* JubaProxy.wait_for_servers: polls after the immediate one.
WaitRetries == 16
\* JubaProxy.wait_for_servers: seconds slept before each later poll.
WaitDelay == 1
\* JubaRPCServer.is_ready: the msgpack-rpc error code of "no such method".
NoMethodError == 1

PortIds == 1..MaxPort
\* A port no topology of the model owns, and None, are legal arguments too.
ForeignPort == MaxPort + 1
PortArgs == PortIds \cup {ForeignPort, None}

Servers == 1..NServers
Proxy == NServers + 1
Inst == 1..Proxy

VARIABLES
    ports,            \* JubaNode._ports: the owned ports, in the order given
    free_ports,       \* JubaNode._free_ports
    leases,           \* history: successful lease_port calls
    frees,            \* history: successful free_port calls
    leased_out,       \* history: ports handed out and not yet returned
    port,             \* JubaRPCServer.port, per instance
    last_port,        \* JubaRPCServer._last_port
    backend,          \* JubaRPCServer._backend: None or the state of its handle
    server_id_cache,  \* JubaServer._server_id_cache
    log_filter,       \* JubaRPCServer._log_filter is set
    options,          \* JubaRPCServer.options: the configured (key, value) pairs
    argv,             \* history: the argument vector of the instance's latest spawn
    pc,               \* the caller's position: idle, inside start, inside wait_for_servers
    cur,              \* the instance whose operation is in progress
    delay,            \* start: the local delay, in microseconds
    sleeps,           \* the durations the operation in progress has slept, in order
    probes,           \* start: readiness probes made by the call in progress
    used_before,      \* history: ports_used() when the start in progress was called
    reply,            \* is_ready: what the most recent probe call met
    ready,            \* is_ready: what the most recent probe returned
    waiting,          \* wait_for_servers: the expected members, in order
    idx,              \* wait_for_servers: position in the expected members
    polls,            \* wait_for_servers: attempts begun
    registered,       \* the router's membership view: identifiers registered
    reported,         \* history: identifiers the router reported during the call
    together,         \* history: every expected identifier was registered at one moment of the call
    lp_process,       \* LocalSubprocess._process: None, or a Popen whose child runs or has ended
    lp_stdout,        \* LocalSubprocess.stdout / stderr: None, or the output of the n-th spawn
    lp_spawns,        \* history: processes the handle has spawned
    cluster_prefix,   \* JubaTestEnvironment._cluster_prefix
    generated_clusters, \* JubaTestEnvironment._generated_clusters
    rpc_servers,      \* JubaTestEnvironment._rpc_servers: the instances built, in order
    clusters,         \* the JubaCluster objects constructed: name, _servers, and the call that made it
    generated_names,  \* history: the cluster names generated, in order
    published,        \* history: the cluster() calls whose jubaconfig run returned 0
    cluster_calls,    \* history: cluster() calls made
    lists,            \* the list objects holding options, by identity
    self_options,     \* the list object each instance's options field refers to
    scope,            \* the instance whose `with` body is being executed, or None
    cstart,           \* JubaCluster.start in progress: the cluster and the next member
    last              \* history: the most recent call or event and its outcome

poolvars == <<ports, free_ports, leases, frees, leased_out>>
instvars == <<port, last_port, backend, server_id_cache, log_filter, options, argv>>
startvars == <<delay, probes, used_before, reply, ready>>
wfsvars == <<waiting, idx, polls, registered, reported, together>>
handlevars == <<lp_process, lp_stdout, lp_spawns>>
envvars == <<cluster_prefix, generated_clusters, rpc_servers, clusters,
             generated_names, published, cluster_calls, scope, cstart,
             lists, self_options>>
vars == <<ports, free_ports, leases, frees, leased_out,
          port, last_port, backend, server_id_cache, log_filter, options, argv,
          pc, cur, delay, sleeps, probes, used_before, reply, ready,
          waiting, idx, polls, registered, reported, together,
          lp_process, lp_stdout, lp_spawns,
          cluster_prefix, generated_clusters, rpc_servers, clusters,
          generated_names, published, cluster_calls, scope, cstart,
          lists, self_options, last>>

\* ----------------------------------------------------------------- helpers
Range(s) == {s[k] : k \in 1..Len(s)}
InSeq(x, s) == x \in Range(s)
NoDup(s) == \A a, b \in 1..Len(s) : a # b => s[a] # s[b]
SeqsUpTo(S, n) == UNION {[1..k -> S] : k \in 0..n}
RECURSIVE SumSeq(_)
SumSeq(s) == IF s = <<>> THEN 0 ELSE Head(s) + SumSeq(Tail(s))
RECURSIVE Pow2(_)
Pow2(n) == IF n = 0 THEN 1 ELSE 2 * Pow2(n - 1)

\* ------------------------------------------------------------ JubaNode
\* lease_port: pop(0) of the free list, JubaSkipTest when it is empty.
lease_port_drop(fp) ==
    IF Len(fp) = 0
    THEN [err |-> "JubaSkipTest", port |-> None, free |-> fp]
    ELSE [err |-> "ok", port |-> Head(fp), free |-> fp]

lease_port_lowest(fp) ==
    IF Len(fp) = 0
    THEN [err |-> "JubaSkipTest", port |-> None, free |-> fp]
    ELSE LET m == CHOOSE x \in Range(fp) : \A y \in Range(fp) : x <= y IN
         [err |-> "ok", port |-> m, free |-> SelectSeq(fp, LAMBDA x : x # m)]

lease_port(fp) ==
    IF Len(fp) = 0
    THEN [err |-> "JubaSkipTest", port |-> None, free |-> fp]
    ELSE [err |-> "ok", port |-> Head(fp), free |-> Tail(fp)]

\* free_port: append to the free list an owned port that is not free.
free_port_unchecked(owned, fp, p) ==
    IF InSeq(p, owned)
    THEN [err |-> "ok", free |-> Append(fp, p)]
    ELSE [err |-> "JubaTestAssertionError", free |-> fp]

free_port_any(owned, fp, p) ==
    IF ~InSeq(p, fp)
    THEN [err |-> "ok", free |-> Append(fp, p)]
    ELSE [err |-> "JubaTestAssertionError", free |-> fp]

free_port(owned, fp, p) ==
    IF InSeq(p, owned)
    THEN IF ~InSeq(p, fp)
         THEN [err |-> "ok", free |-> Append(fp, p)]
         ELSE [err |-> "JubaTestAssertionError", free |-> fp]
    ELSE [err |-> "JubaTestAssertionError", free |-> fp]

ports_used_of(owned, fp) == Len(owned) - Len(fp)
ports_used == ports_used_of(ports, free_ports)

\* What a one-shot RPC call can meet: a result, an error reply carrying the
\* server's error code, a timeout, or no connection at all.
NoReply == [kind |-> "none", code |-> 0]
Replies == {[kind |-> "result", code |-> 0]}
             \cup {[kind |-> "error_reply", code |-> c] : c \in {NoMethodError, NoMethodError + 1}}
Unanswered == {[kind |-> k, code |-> 0] : k \in {"timeout", "unreachable"}}

\* A record of the most recent call or event.
Call(op, inst, arg, err) == [op |-> op, inst |-> inst, arg |-> arg, err |-> err]

\* ------------------------------------------- port pool driven directly
idle_rest == /\ pc = "idle"
             /\ UNCHANGED handlevars
             /\ UNCHANGED envvars
    /\ UNCHANGED envvars
             /\ UNCHANGED <<pc, cur, sleeps>>
             /\ UNCHANGED startvars
             /\ UNCHANGED wfsvars

LeasePort ==
    /\ leases < MaxLeases
    /\ LET r == lease_port(free_ports) IN
         /\ free_ports' = r.free
         /\ leases' = IF r.err = "ok" THEN leases + 1 ELSE leases
         /\ leased_out' = IF r.err = "ok" THEN leased_out \cup {r.port} ELSE leased_out
         /\ last' = Call("lease_port", None, r.port, r.err)
    /\ UNCHANGED <<ports, frees>>
    /\ UNCHANGED instvars
    /\ idle_rest

FreePort(p) ==
    /\ LET r == free_port(ports, free_ports, p) IN
         /\ free_ports' = r.free
         /\ frees' = IF r.err = "ok" THEN frees + 1 ELSE frees
         /\ leased_out' = IF r.err = "ok" THEN leased_out \ {p} ELSE leased_out
         /\ last' = Call("free_port", None, p, r.err)
    /\ UNCHANGED <<ports, leases>>
    /\ UNCHANGED instvars
    /\ idle_rest

\* JubaNode.__init__ and JubaRPCServer.__init__ / JubaServer.__init__.
\* The list objects that exist before any instance is built: the default
\* `options=[]` of server, server_standalone and proxy, each created once when
\* its method is defined, and a list the caller passes in.
DefaultServer == 1
DefaultStandalone == 2
DefaultProxy == 3
CallerList == 4
Shared == {DefaultServer, DefaultStandalone, DefaultProxy, CallerList}

InitEnv(owned, opts, prefix, caller) ==
    /\ ports = owned
    /\ free_ports = owned
    /\ leases = 0
    /\ frees = 0
    /\ leased_out = {}
    /\ port = [i \in Inst |-> None]
    /\ last_port = [i \in Inst |-> None]
    /\ backend = [i \in Inst |-> "None"]
    /\ server_id_cache = [i \in Inst |-> None]
    /\ log_filter = [i \in Inst |-> FALSE]
    /\ options = opts
    /\ argv = [i \in Inst |-> <<>>]
    /\ pc = "idle"
    /\ cur = None
    /\ delay = 0
    /\ sleeps = <<>>
    /\ probes = 0
    /\ used_before = 0
    /\ reply = NoReply
    /\ ready = "none"
    /\ waiting = <<>>
    /\ idx = 0
    /\ polls = 0
    /\ registered = {}
    /\ reported = {}
    /\ together = FALSE
    /\ lp_process = "None"
    /\ lp_stdout = None
    /\ lp_spawns = 0
    /\ cluster_prefix = prefix
    /\ generated_clusters = 0
    /\ rpc_servers = <<>>
    /\ clusters = <<>>
    /\ generated_names = <<>>
    /\ published = {}
    /\ cluster_calls = 0
    /\ scope = None
    /\ cstart = [c |-> None, k |-> None]
    /\ lists = <<<<>>, <<>>, <<>>, caller>> \o [i \in Inst |-> opts[i]]
    /\ self_options = [i \in Inst |-> CallerList + i]
    /\ last = Call("init", None, None, "ok")

\* A coordinator with the default (empty) cluster prefix.
InitWithOptions(owned, opts) == InitEnv(owned, opts, "", <<>>)

\* Instances configured with no option of their own.
InitWith(owned) == InitWithOptions(owned, [i \in Inst |-> <<>>])

\* The port pool under any sequence of lease_port / free_port calls, for every
\* port list a topology can give, duplicates included.
InitPool == \E owned \in SeqsUpTo(PortIds, MaxPort) : InitWith(owned)
NextPool == LeasePort \/ \E p \in PortArgs : FreePort(p)
SpecPool == InitPool /\ [][NextPool]_vars

\* ------------------------------------------ the supervised process handle
\* The handle node.get_process() returns for a service instance. Its states:
\* "unstarted", "running" (started, process alive), "exited" (started, the
\* process has ended on its own), "stopped" (terminated by stop, output captured).
get_process == "unstarted"

backend_start(b) ==
    IF b = "unstarted"
    THEN [err |-> "ok", b |-> "running"]
    ELSE [err |-> "JubaTestFixtureFailedError", b |-> b]

backend_stop_strict(b) ==
    IF b = "running"
    THEN [err |-> "ok", b |-> "stopped"]
    ELSE [err |-> "JubaTestFixtureFailedError", b |-> b]

\* stop(signal): terminates an active process, tolerating one that has exited
\* already, and finalizes the captured output; an error with no active process.
backend_stop(b) ==
    IF b \in {"running", "exited"}
    THEN [err |-> "ok", b |-> "stopped"]
    ELSE [err |-> "JubaTestFixtureFailedError", b |-> b]

backend_is_running(b) == b = "running"
backend_has_output(b) == b = "stopped"

\* ------------------------------------------------------ option emission
\* A Python value used as an option key or value: an int or a str, with the text
\* str() gives for it. str() of the int 7 and of the str '7' is the same text.
py_int(n) == [type |-> "int", text |-> ToString(n)]
py_str(t) == [type |-> "str", text |-> t]
str(x) == x.text

\* _flatten_options: the loop over the (key, value) pairs, with the argument
\* list built so far and the set of key texts seen.
RECURSIVE flatten_from(_, _, _)
flatten_from(opts, args, seen) ==
    IF opts = <<>> THEN args
    ELSE LET opt == Head(opts)
             opt_key == str(opt[1])
             opt_val == str(opt[2])
         IN IF opt_key \in seen
            THEN flatten_from(Tail(opts), args, seen)
            ELSE flatten_from(Tail(opts), args \o <<opt_key, opt_val>>, seen \cup {opt_key})

flatten_options_no_squash(opts) ==
    IF opts = <<>> THEN <<>>
    ELSE [k \in 1..(2 * Len(opts)) |->
            IF k % 2 = 1 THEN str(opts[(k + 1) \div 2][1]) ELSE str(opts[k \div 2][2])]

flatten_options(opts) == flatten_from(opts, <<>>, {})

\* program(): "juba" + service, "_proxy" appended for a router-proxy.
program(i) == IF i = Proxy THEN "jubaclassifier_proxy" ELSE "jubaclassifier"

\* start: options2 = options + [('--rpc-port', port)], and the arguments
\* [program()] + _flatten_options(options2) given to node.get_process.
start_args(i, p) ==
    <<program(i)>> \o flatten_options(options[i] \o <<<<py_str("--rpc-port"), py_int(p)>>>>)

\* ------------------------------------------------- JubaRPCServer / JubaServer
is_running_never(i) == FALSE

is_running(i) == backend[i] # "None" /\ backend_is_running(backend[i])

is_used(i) == backend[i] # "None"

\* is_ready: True on a result and on an RPCError whose first argument is 1.
is_ready_any_reply(r) ==
    IF r.kind = "result" THEN TRUE
    ELSE r.kind = "error_reply"

is_ready(r) ==
    IF r.kind = "result" THEN TRUE
    ELSE IF r.kind = "error_reply" /\ r.code = NoMethodError THEN TRUE
    ELSE FALSE

\* What a call to the instance's (host, port) can meet.
RpcOutcomes(i) == IF is_running(i) THEN Replies \cup Unanswered ELSE Unanswered

next_delay_linear(d) == d + StartDelay

next_delay(d) == d * 2

\* The frames of start and of wait_for_servers, emptied when a new call begins.
ClearStartFrame ==
    /\ delay' = 0
    /\ probes' = 0
    /\ used_before' = 0
    /\ reply' = NoReply
    /\ ready' = "none"
ClearWaitFrame ==
    /\ waiting' = <<>>
    /\ idx' = 0
    /\ polls' = 0
    /\ reported' = {}
    /\ together' = FALSE
    /\ UNCHANGED registered
ClearFrames ==
    /\ sleeps' = <<>>
    /\ ClearStartFrame
    /\ ClearWaitFrame
PoolHistoryUnchanged == UNCHANGED <<ports, leases, frees, leased_out>>

\* reset: JubaServer.reset clears the identifier cache, JubaRPCServer.reset the
\* handle reference and the log filter.
reset_fields_keep_id(i) ==
    [backend |-> "None", log_filter |-> FALSE, server_id_cache |-> server_id_cache[i]]

reset_fields_keep_handle(i) ==
    [backend |-> backend[i], log_filter |-> FALSE, server_id_cache |-> None]

reset_fields(i) ==
    [backend |-> "None", log_filter |-> FALSE, server_id_cache |-> None]

\* stop: _backend.stop(signal); node.free_port(port); port = None.
stop_result_leak(i, fp) ==
    IF backend[i] = "None"
    THEN [err |-> "AttributeError", backend |-> backend[i], port |-> port[i], free |-> fp]
    ELSE LET b == backend_stop(backend[i]) IN
         IF b.err # "ok"
         THEN [err |-> b.err, backend |-> b.b, port |-> port[i], free |-> fp]
         ELSE [err |-> "ok", backend |-> b.b, port |-> None, free |-> fp]

stop_result_no_signal(i, fp) ==
    IF backend[i] = "None"
    THEN [err |-> "AttributeError", backend |-> backend[i], port |-> port[i], free |-> fp]
    ELSE LET f == free_port(ports, fp, port[i]) IN
         IF f.err # "ok"
         THEN [err |-> f.err, backend |-> backend[i], port |-> port[i], free |-> fp]
         ELSE [err |-> "ok", backend |-> backend[i], port |-> None, free |-> f.free]

stop_result(i, fp) ==
    IF backend[i] = "None"
    THEN [err |-> "AttributeError", backend |-> backend[i], port |-> port[i], free |-> fp]
    ELSE LET b == backend_stop(backend[i]) IN
         IF b.err # "ok"
         THEN [err |-> b.err, backend |-> b.b, port |-> port[i], free |-> fp]
         ELSE LET f == free_port(ports, fp, port[i]) IN
              IF f.err # "ok"
              THEN [err |-> f.err, backend |-> b.b, port |-> port[i], free |-> fp]
              ELSE [err |-> "ok", backend |-> b.b, port |-> None, free |-> f.free]

\* start(sync): refuses a running instance; otherwise resets, leases a port and
\* spawns; with sync it goes on to the readiness wait.
Start(i, sync) ==
    /\ pc = "idle"
    /\ PoolHistoryUnchanged
    /\ UNCHANGED handlevars
    /\ UNCHANGED envvars
    /\ sleeps' = <<>>
    /\ ClearWaitFrame
    /\ reply' = NoReply
    /\ ready' = "none"
    /\ probes' = 0
    /\ IF is_running(i)
       THEN /\ last' = Call("start", i, sync, "JubaTestFixtureFailedError")
            /\ UNCHANGED <<free_ports, pc, cur>>
            /\ UNCHANGED instvars
            /\ delay' = 0
            /\ used_before' = 0
       ELSE LET z == reset_fields(i)
                r == lease_port(free_ports) IN
            /\ log_filter' = [log_filter EXCEPT ![i] = z.log_filter]
            /\ server_id_cache' = [server_id_cache EXCEPT ![i] = z.server_id_cache]
            /\ free_ports' = r.free
            /\ IF r.err # "ok"
               THEN /\ backend' = [backend EXCEPT ![i] = z.backend]
                    /\ last' = Call("start", i, sync, r.err)
                    /\ UNCHANGED <<port, last_port, options, argv, pc, cur>>
                    /\ delay' = 0
                    /\ used_before' = 0
               ELSE /\ port' = [port EXCEPT ![i] = r.port]
                    /\ last_port' = [last_port EXCEPT ![i] = r.port]
                    /\ UNCHANGED options
                    /\ argv' = [argv EXCEPT ![i] = start_args(i, r.port)]
                    /\ backend' = [backend EXCEPT ![i] = backend_start(get_process).b]
                    /\ IF sync
                       THEN /\ pc' = "start"
                            /\ cur' = i
                            /\ delay' = StartDelay
                            /\ used_before' = ports_used
                            /\ last' = Call("start", i, sync, "pending")
                       ELSE /\ UNCHANGED <<pc, cur>>
                            /\ delay' = 0
                            /\ used_before' = 0
                            /\ last' = Call("start", i, sync, "ok")

\* One round of the readiness loop of start: sleep, probe, and either return,
\* double the delay, or (after the last attempt) stop and raise.
Probe(o) ==
    /\ pc = "start"
    /\ o \in RpcOutcomes(cur)
    /\ PoolHistoryUnchanged
    /\ UNCHANGED handlevars
    /\ UNCHANGED envvars
    /\ UNCHANGED wfsvars
    /\ UNCHANGED <<last_port, options, argv, server_id_cache, log_filter, used_before, cur>>
    /\ sleeps' = Append(sleeps, delay)
    /\ probes' = probes + 1
    /\ reply' = o
    /\ IF is_ready(o)
       THEN /\ ready' = "True"
            /\ pc' = "idle"
            /\ last' = Call("start", cur, TRUE, "ok")
            /\ UNCHANGED <<delay, port, backend, free_ports>>
       ELSE /\ ready' = "False"
            /\ delay' = next_delay(delay)
            /\ IF probes + 1 < StartAttempts
               THEN /\ last' = Call("start", cur, TRUE, "pending")
                    /\ UNCHANGED <<pc, port, backend, free_ports>>
               ELSE LET s == stop_result(cur, free_ports) IN
                    /\ pc' = "idle"
                    /\ port' = [port EXCEPT ![cur] = s.port]
                    /\ backend' = [backend EXCEPT ![cur] = s.backend]
                    /\ free_ports' = s.free
                    /\ last' = Call("start", cur, TRUE, "JubaTestFixtureFailedError")

Stop(i) ==
    /\ pc = "idle"
    /\ PoolHistoryUnchanged
    /\ UNCHANGED handlevars
    /\ UNCHANGED envvars
    /\ ClearFrames
    /\ UNCHANGED <<pc, cur, last_port, options, argv, server_id_cache, log_filter>>
    /\ LET s == stop_result(i, free_ports) IN
         /\ port' = [port EXCEPT ![i] = s.port]
         /\ backend' = [backend EXCEPT ![i] = s.backend]
         /\ free_ports' = s.free
         /\ last' = Call("stop", i, None, s.err)

\* kill: refuses an instance that is not running; otherwise as stop, with KILL.
Kill(i) ==
    /\ pc = "idle"
    /\ PoolHistoryUnchanged
    /\ UNCHANGED handlevars
    /\ UNCHANGED envvars
    /\ ClearFrames
    /\ UNCHANGED <<pc, cur, last_port, options, argv, server_id_cache, log_filter>>
    /\ IF ~is_running(i)
       THEN /\ last' = Call("kill", i, None, "JubaTestFixtureFailedError")
            /\ UNCHANGED <<port, backend, free_ports>>
       ELSE LET s == stop_result(i, free_ports) IN
            /\ port' = [port EXCEPT ![i] = s.port]
            /\ backend' = [backend EXCEPT ![i] = s.backend]
            /\ free_ports' = s.free
            /\ last' = Call("kill", i, None, s.err)

Reset(i) ==
    /\ pc = "idle"
    /\ PoolHistoryUnchanged
    /\ UNCHANGED handlevars
    /\ UNCHANGED envvars
    /\ ClearFrames
    /\ UNCHANGED <<pc, cur, port, last_port, options, argv, free_ports>>
    /\ LET z == reset_fields(i) IN
         /\ backend' = [backend EXCEPT ![i] = z.backend]
         /\ log_filter' = [log_filter EXCEPT ![i] = z.log_filter]
         /\ server_id_cache' = [server_id_cache EXCEPT ![i] = z.server_id_cache]
    /\ last' = Call("reset", i, None, "ok")

\* get_id: the memoized identifier, or else get_status asked of (host, port); the
\* identifier "<host>_<port>" is modelled by the port the server listens on.
GetId(i, o) ==
    /\ pc = "idle"
    /\ i \in Servers
    /\ PoolHistoryUnchanged
    /\ UNCHANGED handlevars
    /\ UNCHANGED envvars
    /\ ClearFrames
    /\ UNCHANGED <<pc, cur, port, last_port, options, argv, backend, log_filter, free_ports>>
    /\ IF server_id_cache[i] # None
       THEN /\ o = [kind |-> "result", code |-> 0]
            /\ UNCHANGED server_id_cache
            /\ last' = Call("get_id", i, server_id_cache[i], "ok")
       ELSE /\ o \in RpcOutcomes(i)
            /\ IF o.kind = "result"
               THEN /\ server_id_cache' = [server_id_cache EXCEPT ![i] = port[i]]
                    /\ last' = Call("get_id", i, port[i], "ok")
               ELSE /\ UNCHANGED server_id_cache
                    /\ last' = Call("get_id", i, None, "RPCError")

\* log_all: _get_log_filter builds the filter once from the captured output.
LogAll(i) ==
    /\ pc = "idle"
    /\ PoolHistoryUnchanged
    /\ UNCHANGED handlevars
    /\ UNCHANGED envvars
    /\ ClearFrames
    /\ UNCHANGED <<pc, cur, port, last_port, options, argv, backend, server_id_cache, free_ports>>
    /\ IF backend[i] # "None" /\ backend_has_output(backend[i])
       THEN /\ log_filter' = [log_filter EXCEPT ![i] = TRUE]
            /\ last' = Call("log_all", i, None, "ok")
       ELSE /\ UNCHANGED log_filter
            /\ last' = Call("log_all", i, None, "JubaTestAssertionError")

\* The supervised process ends on its own.
ProcExit(i) ==
    /\ backend[i] = "running"
    /\ backend' = [backend EXCEPT ![i] = "exited"]
    /\ last' = Call("exit", i, None, "ok")
    /\ UNCHANGED poolvars
    /\ UNCHANGED handlevars
    /\ UNCHANGED envvars
    /\ UNCHANGED <<port, last_port, options, argv, server_id_cache, log_filter, pc, cur, sleeps>>
    /\ UNCHANGED startvars
    /\ UNCHANGED wfsvars

\* ------------------------------------------- JubaTestEnvironment teardown
\* finalize_test_case, first loop: stop() on every registered instance that is
\* running, in registration order; an error of stop leaves the loop.
RECURSIVE finalize_stop(_, _)
finalize_stop(k, st) ==
    IF k > NServers \/ st.err # "ok" THEN st
    ELSE IF ~is_running(k) THEN finalize_stop(k + 1, st)
    ELSE LET s == stop_result(k, st.free) IN
         finalize_stop(k + 1, [err |-> s.err,
                               backend |-> [st.backend EXCEPT ![k] = s.backend],
                               port |-> [st.port EXCEPT ![k] = s.port],
                               free |-> s.free])

\* log_raw raises unless the instance has a handle whose output was captured;
\* the attach-logs loop calls it on every used instance.
log_raw_raises(b) == ~(b # "None" /\ backend_has_output(b))
attach_logs_raises(b) == \E i \in Servers : b[i] # "None" /\ log_raw_raises(b[i])

\* finalize_test_case(testCase): stop what is running, (warn on leaked ports,)
\* collect the raw logs when testCase.attachLogs, reset every instance.
FinalizeTestCase(attachLogs) ==
    /\ pc = "idle"
    /\ PoolHistoryUnchanged
    /\ UNCHANGED handlevars
    /\ UNCHANGED envvars
    /\ ClearFrames
    /\ UNCHANGED <<pc, cur, last_port, options, argv>>
    /\ LET st == finalize_stop(1, [err |-> "ok", backend |-> backend,
                                   port |-> port, free |-> free_ports])
           err == IF st.err # "ok" THEN st.err
                  ELSE IF attachLogs /\ attach_logs_raises(st.backend)
                       THEN "JubaTestAssertionError"
                       ELSE "ok"
       IN
       /\ port' = st.port
       /\ free_ports' = st.free
       /\ last' = Call("finalize_test_case", None, attachLogs, err)
       /\ IF err # "ok"
          THEN /\ backend' = st.backend
               /\ UNCHANGED <<server_id_cache, log_filter>>
          ELSE /\ backend' = [i \in Inst |->
                                IF i \in Servers THEN reset_fields(i).backend ELSE st.backend[i]]
               /\ log_filter' = [i \in Inst |->
                                   IF i \in Servers THEN reset_fields(i).log_filter ELSE log_filter[i]]
               /\ server_id_cache' = [i \in Inst |->
                                        IF i \in Servers THEN reset_fields(i).server_id_cache
                                        ELSE server_id_cache[i]]

\* Service instances on one Node whose owned ports are distinct: the Node owns
\* the ports 1..n, for every n up to MaxPort.
Topologies == {[k \in 1..n |-> k] : n \in 0..MaxPort}
Init == \E owned \in Topologies : InitWith(owned)
Next ==
    \/ \E i \in Servers, sync \in BOOLEAN : Start(i, sync)
    \/ \E i \in Servers : ProcExit(i)
    \/ \E o \in Replies \cup Unanswered : Probe(o)
    \/ \E i \in Servers : Stop(i)
    \/ \E i \in Servers : Kill(i)
    \/ \E i \in Servers : Reset(i)
    \/ \E i \in Servers, o \in Replies \cup Unanswered : GetId(i, o)
    \/ \E i \in Servers : LogAll(i)
    \/ \E attachLogs \in BOOLEAN : FinalizeTestCase(attachLogs)
Spec == Init /\ [][Next]_vars

\* ------------------------------------------- instances with options
\* Option keys and values: texts an int and a str share, and the key start adds.
OptKeys == {py_str("--rpc-port"), py_str("7"), py_int(7)}
OptVals == {py_int(1), py_int(7), py_str("9")}
OptionLists == SeqsUpTo({<<k, v>> : k \in OptKeys, v \in OptVals}, MaxOpts)

\* A call of _flatten_options on the configured options of an instance.
FlattenOptions(i) ==
    /\ pc = "idle"
    /\ PoolHistoryUnchanged
    /\ UNCHANGED handlevars
    /\ UNCHANGED envvars
    /\ ClearFrames
    /\ UNCHANGED instvars
    /\ UNCHANGED <<pc, cur, free_ports>>
    /\ last' = Call("_flatten_options", i, flatten_options(options[i]), "ok")

\* One server configured with any option list, on a Node that owns two ports.
InitOpts ==
    \E o \in OptionLists :
        InitWithOptions(<<1, 2>>, [i \in Inst |-> IF i = 1 THEN o ELSE <<>>])
NextOpts ==
    \/ FlattenOptions(1)
    \/ Start(1, FALSE)
    \/ ProcExit(1)
    \/ Stop(1)
SpecOpts == InitOpts /\ [][NextOpts]_vars

\* ------------------------------------------------------------ JubaProxy
\* get_id as a function of what the get_status call meets.
get_id_result(i, o) ==
    IF server_id_cache[i] # None
    THEN [err |-> "ok", id |-> server_id_cache[i], cache |-> server_id_cache[i]]
    ELSE IF o.kind = "result"
         THEN [err |-> "ok", id |-> port[i], cache |-> port[i]]
         ELSE [err |-> "RPCError", id |-> None, cache |-> None]

\* What get_status(cluster.name) asked of the router can meet: the members, the
\* error "no server found: <name>" when none is registered, any other error.
RouterOutcomes ==
    IF is_running(Proxy)
    THEN {"members", "other error", "timeout"}
            \cup (IF registered = {} THEN {"no server found"} ELSE {})
    ELSE {"timeout", "unreachable"}

\* get_cluster_members: "no server found" is an empty member list, every other
\* error is raised again.
get_cluster_members(o) ==
    IF o = "members" THEN [err |-> "ok", members |-> registered]
    ELSE IF o = "no server found" THEN [err |-> "ok", members |-> {}]
    ELSE [err |-> "RPCError", members |-> {}]

\* wait_for_servers: the delays [0] + [1] * 16, one per attempt.
wait_delays_no_first == [k \in 1..WaitRetries |-> WaitDelay]

wait_delays == <<0>> \o [k \in 1..WaitRetries |-> WaitDelay]

ExpectedLists == {s \in SeqsUpTo(Servers, NServers) : NoDup(s)}

\* Every expected member's identifier (the memoized one, or else that of the port
\* it listens on) is in the member set reg.
all_registered(servers, cache, reg) ==
    \A k \in 1..Len(servers) :
        (IF cache[servers[k]] # None THEN cache[servers[k]] ELSE port[servers[k]]) \in reg

\* The call: with no expected member the first attempt succeeds at once.
WaitForServers(servers) ==
    /\ pc = "idle"
    /\ PoolHistoryUnchanged
    /\ UNCHANGED handlevars
    /\ UNCHANGED envvars
    /\ UNCHANGED instvars
    /\ UNCHANGED free_ports
    /\ ClearStartFrame
    /\ UNCHANGED registered
    /\ waiting' = servers
    /\ reported' = {}
    /\ together' = all_registered(servers, server_id_cache, registered)
    /\ cur' = Proxy
    /\ IF servers = <<>>
       THEN /\ sleeps' = <<wait_delays[1]>>
            /\ polls' = 1
            /\ idx' = 0
            /\ UNCHANGED pc
            /\ last' = Call("wait_for_servers", Proxy, servers, "ok")
       ELSE /\ sleeps' = <<>>
            /\ polls' = 0
            /\ idx' = 1
            /\ pc' = "wfs"
            /\ last' = Call("wait_for_servers", Proxy, servers, "pending")

\* One member of one attempt: the sleep when the attempt begins, get_id of the
\* member, get_cluster_members, and the membership test.
WfsStep(oid, orouter) ==
    /\ pc = "wfs"
    /\ orouter \in RouterOutcomes
    /\ PoolHistoryUnchanged
    /\ UNCHANGED handlevars
    /\ UNCHANGED envvars
    /\ UNCHANGED <<port, last_port, options, argv, backend, log_filter, free_ports, cur>>
    /\ UNCHANGED startvars
    /\ UNCHANGED <<waiting, registered>>
    /\ together' = (together \/ all_registered(waiting, server_id_cache, registered))
    /\ LET s == waiting[idx]
           begins == idx = 1
           n == IF begins THEN polls + 1 ELSE polls
           g == get_id_result(s, oid)
           m == get_cluster_members(orouter)
       IN
       /\ IF server_id_cache[s] # None
          THEN oid = [kind |-> "result", code |-> 0]
          ELSE oid \in RpcOutcomes(s)
       /\ sleeps' = IF begins THEN Append(sleeps, wait_delays[n]) ELSE sleeps
       /\ polls' = n
       /\ IF g.err # "ok"
          THEN /\ UNCHANGED <<server_id_cache, reported, idx>>
               /\ pc' = "idle"
               /\ last' = Call("wait_for_servers", Proxy, waiting, g.err)
          ELSE /\ server_id_cache' = [server_id_cache EXCEPT ![s] = g.cache]
               /\ IF m.err # "ok"
                  THEN /\ UNCHANGED <<reported, idx>>
                       /\ pc' = "idle"
                       /\ last' = Call("wait_for_servers", Proxy, waiting, m.err)
                  ELSE /\ reported' = reported \cup m.members
                       /\ IF g.id \notin m.members
                          THEN IF n < Len(wait_delays)
                               THEN /\ idx' = 1
                                    /\ UNCHANGED pc
                                    /\ last' = Call("wait_for_servers", Proxy, waiting, "pending")
                               ELSE /\ UNCHANGED idx
                                    /\ pc' = "idle"
                                    /\ last' = Call("wait_for_servers", Proxy, waiting,
                                                    "JubaTestFixtureFailedError")
                          ELSE IF idx < Len(waiting)
                               THEN /\ idx' = idx + 1
                                    /\ UNCHANGED pc
                                    /\ last' = Call("wait_for_servers", Proxy, waiting, "pending")
                               ELSE /\ UNCHANGED idx
                                    /\ pc' = "idle"
                                    /\ last' = Call("wait_for_servers", Proxy, waiting, "ok")

\* A running server registers its identifier with the coordination service,
\* or an identifier disappears from it.
env_rest ==
    /\ UNCHANGED poolvars
    /\ UNCHANGED handlevars
    /\ UNCHANGED envvars
    /\ UNCHANGED instvars
    /\ UNCHANGED <<pc, cur, sleeps>>
    /\ UNCHANGED startvars
    /\ UNCHANGED <<waiting, idx, polls, reported>>
    /\ together' = IF pc = "wfs"
                   THEN together \/ all_registered(waiting, server_id_cache, registered')
                   ELSE together

Register(i) ==
    /\ i \in Servers
    /\ is_running(i)
    /\ port[i] \notin registered
    /\ registered' = registered \cup {port[i]}
    /\ last' = Call("register", i, port[i], "ok")
    /\ env_rest

Deregister(id) ==
    /\ id \in registered
    /\ registered' = registered \ {id}
    /\ last' = Call("deregister", None, id, "ok")
    /\ env_rest

\* A router and its servers on a Node that owns one port for each of them,
\* started without the readiness wait, and the membership synchronizer.
NextWfs ==
    \/ \E i \in Inst : Start(i, FALSE)
    \/ \E i \in Inst : ProcExit(i)
    \/ \E i \in Servers : Register(i)
    \/ \E id \in 1..Proxy : Deregister(id)
    \/ \E servers \in ExpectedLists : WaitForServers(servers)
    \/ \E oid \in Replies \cup Unanswered,
          orouter \in {"members", "no server found", "other error", "timeout", "unreachable"} :
          WfsStep(oid, orouter)
InitWfs == InitWith([k \in 1..Proxy |-> k])
SpecWfs == InitWfs /\ [][NextWfs]_vars

\* -------------------------------------------------------- LocalSubprocess
\* A handle h is its _process ("None", or a Popen whose child is "running" or
\* has "exited") and its stdout / stderr (None, or the output of the n-th spawn).
\* start: refuses a handle that has a _process; otherwise spawns.
local_start(h) ==
    IF h.process # "None"
    THEN [err |-> "JubaTestFixtureFailedError", process |-> h.process, stdout |-> h.stdout,
          spawned |-> FALSE]
    ELSE [err |-> "ok", process |-> "running", stdout |-> h.stdout, spawned |-> TRUE]

\* wait: refuses a handle with no _process; otherwise communicate() runs to the
\* end of the child and captures its output, and _process becomes None.
local_wait(h, n) ==
    IF h.process = "None"
    THEN [err |-> "JubaTestFixtureFailedError", process |-> h.process, stdout |-> h.stdout]
    ELSE [err |-> "ok", process |-> "None", stdout |-> n]

\* What delivering the signal can meet: it is delivered, there is no such
\* process any more (ESRCH), or the system refuses for another reason.
Signals(h) ==
    IF h.process = "running" THEN {"delivered", "EPERM"}
    ELSE {"delivered", "ESRCH", "EPERM"}

local_stop_no_finally(h, n, sig) ==
    IF h.process = "None"
    THEN [err |-> "JubaTestFixtureFailedError", process |-> h.process, stdout |-> h.stdout]
    ELSE IF sig \in {"delivered", "ESRCH"}
         THEN [err |-> "ok", process |-> "None", stdout |-> n]
         ELSE [err |-> "OSError", process |-> h.process, stdout |-> h.stdout]

\* stop: refuses a handle with no _process; otherwise signals, swallows ESRCH,
\* raises any other OSError again, and in every case captures the output and
\* sets _process to None.
local_stop(h, n, sig) ==
    IF h.process = "None"
    THEN [err |-> "JubaTestFixtureFailedError", process |-> h.process, stdout |-> h.stdout]
    ELSE [err |-> IF sig \in {"delivered", "ESRCH"} THEN "ok" ELSE "OSError",
          process |-> "None", stdout |-> n]

local_is_running(h) == h.process = "running"

handle == [process |-> lp_process, stdout |-> lp_stdout]
handle_rest ==
    /\ UNCHANGED poolvars
    /\ UNCHANGED envvars
    /\ UNCHANGED instvars
    /\ UNCHANGED <<pc, cur, sleeps>>
    /\ UNCHANGED startvars
    /\ UNCHANGED wfsvars

LocalStart ==
    /\ lp_spawns < MaxSpawns
    /\ LET r == local_start(handle) IN
         /\ lp_process' = r.process
         /\ lp_stdout' = r.stdout
         /\ lp_spawns' = IF r.spawned THEN lp_spawns + 1 ELSE lp_spawns
         /\ last' = Call("LocalSubprocess.start", None, None, r.err)
    /\ handle_rest

LocalWait(returncode) ==
    /\ LET r == local_wait(handle, lp_spawns) IN
         /\ lp_process' = r.process
         /\ lp_stdout' = r.stdout
         /\ last' = Call("LocalSubprocess.wait", None,
                         IF r.err = "ok" THEN returncode ELSE None, r.err)
    /\ UNCHANGED lp_spawns
    /\ handle_rest

\* A stop call and what its signal met ("none" when no signal is sent).
LocalStop(kill, sig) ==
    /\ lp_process # "None" => sig \in Signals(handle)
    /\ lp_process = "None" => sig = "none"
    /\ LET r == local_stop(handle, lp_spawns, sig) IN
         /\ lp_process' = r.process
         /\ lp_stdout' = r.stdout
         /\ last' = Call("LocalSubprocess.stop", None, <<kill, sig>>, r.err)
    /\ UNCHANGED lp_spawns
    /\ handle_rest

\* The child ends on its own.
LocalExit ==
    /\ lp_process = "running"
    /\ lp_process' = "exited"
    /\ last' = Call("exit", None, None, "ok")
    /\ UNCHANGED <<lp_stdout, lp_spawns>>
    /\ handle_rest

\* One handle under any sequence of start, wait and stop calls.
NextHandle ==
    \/ LocalStart
    \/ \E returncode \in {0, 1} : LocalWait(returncode)
    \/ \E kill \in BOOLEAN, sig \in {"none", "delivered", "ESRCH", "EPERM"} : LocalStop(kill, sig)
    \/ LocalExit
InitHandle == InitWith(<<>>)
SpecHandle == InitHandle /\ [][NextHandle]_vars

\* ------------------------------------------- start(sync=True) as one call
\* What a whole start() with the readiness wait leaves behind, given the free
\* list and whether some probe of the eight finds the server ready: refused on
\* a running instance; else reset; JubaSkipTest with no free port; else the
\* spawn, and on a wait that times out stop() and JubaTestFixtureFailedError.
start_sync(i, fp, answered) ==
    LET z == reset_fields(i)
        r == lease_port(fp)
        same == [backend |-> backend[i], port |-> port[i], last_port |-> last_port[i],
                 free |-> fp, argv |-> argv[i],
                 log_filter |-> log_filter[i], server_id_cache |-> server_id_cache[i]]
        cleared == [same EXCEPT !.backend = z.backend, !.log_filter = z.log_filter,
                                !.server_id_cache = z.server_id_cache]
        spawned == [cleared EXCEPT !.backend = backend_start(get_process).b,
                                   !.port = r.port, !.last_port = r.port,
                                   !.free = r.free, !.argv = start_args(i, r.port)]
        b == backend_stop(spawned.backend)
        f == free_port(ports, spawned.free, spawned.port)
        stopped == IF b.err # "ok" THEN spawned
                   ELSE IF f.err # "ok" THEN [spawned EXCEPT !.backend = b.b]
                   ELSE [spawned EXCEPT !.backend = b.b, !.port = None, !.free = f.free]
    IN IF is_running(i) THEN [err |-> "JubaTestFixtureFailedError", to |-> same]
       ELSE IF r.err # "ok" THEN [err |-> r.err, to |-> cleared]
       ELSE IF answered THEN [err |-> "ok", to |-> spawned]
       ELSE [err |-> "JubaTestFixtureFailedError", to |-> stopped]

\* The fields of instance i after such a call.
SetInstance(i, to) ==
    /\ backend' = [backend EXCEPT ![i] = to.backend]
    /\ port' = [port EXCEPT ![i] = to.port]
    /\ last_port' = [last_port EXCEPT ![i] = to.last_port]
    /\ argv' = [argv EXCEPT ![i] = to.argv]
    /\ log_filter' = [log_filter EXCEPT ![i] = to.log_filter]
    /\ server_id_cache' = [server_id_cache EXCEPT ![i] = to.server_id_cache]
    /\ free_ports' = to.free
    /\ UNCHANGED options

\* ---------------------------------- JubaTestEnvironment / JubaCluster
\* _generate_cluster_name: the counter goes up by one and is formatted into
\* 'jubatest-cluster-%s-%d' together with the coordinator's prefix.
generate_cluster_name_reuse(prefix, n) ==
    [n |-> n, name |-> "jubatest-cluster-" \o prefix \o "-" \o ToString(n)]

generate_cluster_name(prefix, n) ==
    [n |-> n + 1, name |-> "jubatest-cluster-" \o prefix \o "-" \o ToString(n + 1)]

\* JubaCluster.configure: JubaSkipTest when jubaconfig is not in PATH; else the
\* command runs on a new LocalSubprocess, and a non-zero return code of wait()
\* is a JubaTestFixtureFailedError.
configure_unchecked(available, returncode) ==
    IF ~available THEN "JubaSkipTest" ELSE "ok"

configure(available, returncode) ==
    IF ~available THEN "JubaSkipTest"
    ELSE LET proc == local_start([process |-> "None", stdout |-> None])
             done == local_wait(proc, 1)
         IN IF proc.err # "ok" THEN proc.err
            ELSE IF done.err # "ok" THEN done.err
            ELSE IF returncode # 0 THEN "JubaTestFixtureFailedError"
            ELSE "ok"

\* The cluster_name argument of cluster(): None (not given), or a string.
NameArgs == {[given |-> FALSE, name |-> ""]}
              \cup {[given |-> TRUE, name |-> n] : n \in {"", "mine", "jubatest-cluster--1"}}

\* cluster(service, config, cluster_name): a name is generated when none (or an
\* empty one) is given; the JubaCluster is returned only when its constructor,
\* which ends with configure(), has not raised.
Cluster(arg, available, returncode) ==
    /\ pc = "idle"
    /\ cluster_calls < MaxClusters
    /\ ~available => returncode = 0
    /\ cluster_calls' = cluster_calls + 1
    /\ UNCHANGED poolvars
    /\ UNCHANGED instvars
    /\ UNCHANGED handlevars
    /\ UNCHANGED <<pc, cur, sleeps, cluster_prefix, rpc_servers, scope, cstart,
                   lists, self_options>>
    /\ UNCHANGED startvars
    /\ UNCHANGED wfsvars
    /\ LET generate == ~arg.given \/ arg.name = ""
           g == generate_cluster_name(cluster_prefix, generated_clusters)
           name == IF generate THEN g.name ELSE arg.name
           err == configure(available, returncode)
       IN
       /\ generated_clusters' = IF generate THEN g.n ELSE generated_clusters
       /\ generated_names' = IF generate THEN Append(generated_names, name) ELSE generated_names
       /\ published' = IF available /\ returncode = 0
                       THEN published \cup {cluster_calls + 1}
                       ELSE published
       /\ clusters' = IF err = "ok"
                      THEN Append(clusters, [name |-> name, servers |-> <<>>,
                                             call |-> cluster_calls + 1])
                      ELSE clusters
       /\ last' = Call("cluster", None,
                       [generated |-> generate, name |-> name,
                        available |-> available, returncode |-> returncode], err)

\* The instances that belong to some constructed cluster.
Members == UNION {Range(clusters[c].servers) : c \in 1..Len(clusters)}

\* server(node, cluster, options): the options, with --datadir, --zookeeper and
\* (from JubaServer.__init__) --name appended.
\* ------------------------------------------------------ option list objects
\* `a + items`: a new list object; a itself is left alone.
py_list_add(ls, a, items) == [lists |-> Append(ls, ls[a] \o items), ref |-> Len(ls) + 1]
\* `a += items`: the object a is extended in place.
py_list_iadd(ls, a, items) == [lists |-> [ls EXCEPT ![a] = @ \o items], ref |-> a]

\* JubaServer.__init__: options2 is the list passed in, extended in place by
\* --name for a clustered server, and becomes self.options.
JubaServer_init(ls, options_ref, name) ==
    IF name # ""
    THEN py_list_iadd(ls, options_ref, <<<<py_str("--name"), py_str(name)>>>>)
    ELSE [lists |-> ls, ref |-> options_ref]

\* JubaStandaloneServer.__init__: a new list with --configpath, no name.
JubaStandaloneServer_init(ls, options_ref) ==
    LET o == py_list_add(ls, options_ref, <<<<py_str("--configpath"), py_str("/tmp/config")>>>>)
    IN JubaServer_init(o.lists, o.ref, "")

\* The list object a coordinator method builds the instance with.
server_options_shared(ls, options_ref, name) ==
    LET o == py_list_iadd(ls, options_ref, <<<<py_str("--datadir"), py_str("/tmp")>>,
                                             <<py_str("--zookeeper"), py_str("localhost:2181")>>>>)
    IN JubaServer_init(o.lists, o.ref, name)

server_options(ls, options_ref, name) ==
    LET o == py_list_add(ls, options_ref, <<<<py_str("--datadir"), py_str("/tmp")>>,
                                            <<py_str("--zookeeper"), py_str("localhost:2181")>>>>)
    IN JubaServer_init(o.lists, o.ref, name)

server_standalone_options(ls, options_ref) ==
    LET o == py_list_add(ls, options_ref, <<<<py_str("--datadir"), py_str("/tmp")>>>>)
    IN JubaStandaloneServer_init(o.lists, o.ref)

proxy_options(ls, options_ref) ==
    py_list_add(ls, options_ref, <<<<py_str("--zookeeper"), py_str("localhost:2181")>>>>)

\* The instance i now refers to the list object o.ref.
SetOptions(i, o) ==
    /\ lists' = o.lists
    /\ self_options' = [self_options EXCEPT ![i] = o.ref]
    /\ options' = [options EXCEPT ![i] = o.lists[o.ref]]

\* server(node, cluster, options): a new JubaServer, added to the cluster's
\* _servers and to the coordinator's registry.
Server(c, i, options_ref) ==
    /\ pc = "idle"
    /\ c \in 1..Len(clusters)
    /\ i \in Servers \ Members
    /\ UNCHANGED poolvars
    /\ UNCHANGED handlevars
    /\ UNCHANGED <<port, last_port, backend, server_id_cache, log_filter, argv>>
    /\ UNCHANGED <<pc, cur, sleeps>>
    /\ UNCHANGED startvars
    /\ UNCHANGED wfsvars
    /\ UNCHANGED <<cluster_prefix, generated_clusters, generated_names, published, cluster_calls,
                   scope, cstart>>
    /\ SetOptions(i, server_options(lists, options_ref, clusters[c].name))
    /\ clusters' = [clusters EXCEPT ![c].servers = Append(@, i)]
    /\ rpc_servers' = Append(rpc_servers, i)
    /\ last' = Call("server", i, c, "ok")

\* server_standalone(node, service, config, options): a new
\* JubaStandaloneServer, added to the registry.
ServerStandalone(i, options_ref) ==
    /\ pc = "idle"
    /\ i \in Servers \ (Members \cup Range(rpc_servers))
    /\ UNCHANGED poolvars
    /\ UNCHANGED handlevars
    /\ UNCHANGED <<port, last_port, backend, server_id_cache, log_filter, argv>>
    /\ UNCHANGED <<pc, cur, sleeps>>
    /\ UNCHANGED startvars
    /\ UNCHANGED wfsvars
    /\ UNCHANGED <<cluster_prefix, generated_clusters, generated_names, published, cluster_calls,
                   clusters, scope, cstart>>
    /\ SetOptions(i, server_standalone_options(lists, options_ref))
    /\ rpc_servers' = Append(rpc_servers, i)
    /\ last' = Call("server_standalone", i, None, "ok")

\* proxy(node, service, options): a new JubaProxy, added to the registry.
NewProxy(options_ref) ==
    /\ pc = "idle"
    /\ Proxy \notin Range(rpc_servers)
    /\ UNCHANGED poolvars
    /\ UNCHANGED handlevars
    /\ UNCHANGED <<port, last_port, backend, server_id_cache, log_filter, argv>>
    /\ UNCHANGED <<pc, cur, sleeps>>
    /\ UNCHANGED startvars
    /\ UNCHANGED wfsvars
    /\ UNCHANGED <<cluster_prefix, generated_clusters, generated_names, published, cluster_calls,
                   clusters, scope, cstart>>
    /\ SetOptions(Proxy, proxy_options(lists, options_ref))
    /\ rpc_servers' = Append(rpc_servers, Proxy)
    /\ last' = Call("proxy", Proxy, None, "ok")

\* finalize_test_class: the registry is emptied.
FinalizeTestClass ==
    /\ pc = "idle"
    /\ UNCHANGED poolvars
    /\ UNCHANGED instvars
    /\ UNCHANGED handlevars
    /\ UNCHANGED <<pc, cur, sleeps>>
    /\ UNCHANGED startvars
    /\ UNCHANGED wfsvars
    /\ UNCHANGED <<cluster_prefix, generated_clusters, clusters, generated_names,
                   published, cluster_calls, scope, cstart, lists, self_options>>
    /\ rpc_servers' = <<>>
    /\ last' = Call("finalize_test_class", None, None, "ok")

\* One coordinator, with any cluster prefix: clusters are constructed and
\* servers built into them, between test-case and test-class teardowns.
Prefixes == {"", "t", "t-1"}
InitNames ==
    \E prefix \in Prefixes : InitEnv(<<1, 2>>, [i \in Inst |-> <<>>], prefix, <<>>)
NextNames ==
    \/ \E arg \in NameArgs, available \in BOOLEAN, returncode \in {0, 1} :
          Cluster(arg, available, returncode)
    \/ \E c \in 1..MaxClusters, i \in Servers : Server(c, i, DefaultServer)
    \/ \E attachLogs \in BOOLEAN : FinalizeTestCase(attachLogs)
    \/ FinalizeTestClass
SpecNames == InitNames /\ [][NextNames]_vars

\* One coordinator on a Node that owns two ports: clusters are constructed,
\* servers are built into them, started and stopped.
\* JubaCluster.start: `for server in self._servers: server.start()`. Where the
\* loop stands after the start() of member k of n has returned err: an error
\* leaves the loop and the call at once, success goes on to the next member.
cluster_start_next_swallow(k, n, err) ==
    IF k < n THEN [k |-> k + 1, err |-> "pending"]
    ELSE [k |-> None, err |-> "ok"]

cluster_start_next(k, n, err) ==
    IF err # "ok" THEN [k |-> None, err |-> err]
    ELSE IF k < n THEN [k |-> k + 1, err |-> "pending"]
    ELSE [k |-> None, err |-> "ok"]

\* The call of start() on cluster c: the loop is entered, or is over at once
\* for a cluster without members.
ClusterStart(c) ==
    /\ pc = "idle"
    /\ c \in 1..Len(clusters)
    /\ UNCHANGED poolvars
    /\ UNCHANGED instvars
    /\ UNCHANGED handlevars
    /\ UNCHANGED <<cur, sleeps>>
    /\ UNCHANGED startvars
    /\ UNCHANGED wfsvars
    /\ UNCHANGED <<cluster_prefix, generated_clusters, rpc_servers, clusters, generated_names,
                   published, cluster_calls, scope, lists, self_options>>
    /\ IF clusters[c].servers = <<>>
       THEN /\ UNCHANGED <<pc, cstart>>
            /\ last' = Call("JubaCluster.start", None, [c |-> c, k |-> None], "ok")
       ELSE /\ pc' = "cluster"
            /\ cstart' = [c |-> c, k |-> 1]
            /\ last' = Call("JubaCluster.start", None, [c |-> c, k |-> None], "pending")

\* One turn of the loop: start() of the next member, with its readiness wait.
ClusterStartMember(answered) ==
    /\ pc = "cluster"
    /\ PoolHistoryUnchanged
    /\ UNCHANGED handlevars
    /\ ClearFrames
    /\ UNCHANGED cur
    /\ UNCHANGED <<cluster_prefix, generated_clusters, rpc_servers, clusters, generated_names,
                   published, cluster_calls, scope, lists, self_options>>
    /\ LET c == cstart.c
           k == cstart.k
           i == clusters[c].servers[k]
           r == start_sync(i, free_ports, answered)
           n == cluster_start_next(k, Len(clusters[c].servers), r.err) IN
         /\ SetInstance(i, r.to)
         /\ cstart' = IF n.k = None THEN [c |-> None, k |-> None] ELSE [c |-> c, k |-> n.k]
         /\ pc' = IF n.k = None THEN "idle" ELSE "cluster"
         /\ last' = Call("JubaCluster.start", i, [c |-> c, k |-> k, member |-> r.err], n.err)

InitCluster == InitWith(<<1, 2>>)
NextCluster ==
    \/ \E arg \in NameArgs, available \in BOOLEAN, returncode \in {0, 1} :
          Cluster(arg, available, returncode)
    \/ \E c \in 1..MaxClusters, i \in Servers : Server(c, i, DefaultServer)
    \/ \E i \in Servers : i \in Members /\ Start(i, FALSE)
    \/ \E i \in Servers : i \in Members /\ Stop(i)
    \/ \E c \in 1..MaxClusters : ClusterStart(c)
    \/ \E answered \in BOOLEAN : ClusterStartMember(answered)
SpecCluster == InitCluster /\ [][NextCluster]_vars

\* ------------------------------------ instances built by the coordinator
\* What the caller's list holds when it is passed in.
CallerLists == {<<>>, <<<<py_str("--thread"), py_int(2)>>>>}
\* The list objects a caller can pass as options: its own, or none (the default).
OptionsArgs(default) == {default, CallerList}

InitBuild ==
    \E caller \in CallerLists : InitEnv(<<1, 2>>, [i \in Inst |-> <<>>], "", caller)

NextBuild ==
    \/ clusters = <<>> /\ Cluster([given |-> FALSE, name |-> ""], TRUE, 0)
    \/ \E c \in 1..MaxClusters, i \in Servers, o \in OptionsArgs(DefaultServer) :
          i \notin Range(rpc_servers) /\ Server(c, i, o)
    \/ \E i \in Servers, o \in OptionsArgs(DefaultStandalone) : ServerStandalone(i, o)
    \/ \E o \in OptionsArgs(DefaultProxy) : NewProxy(o)
    \/ \E i \in Inst : i \in Range(rpc_servers) /\ Start(i, FALSE)
    \/ \E i \in Inst : i \in Range(rpc_servers) /\ Stop(i)

SpecBuild == InitBuild /\ [][NextBuild]_vars

\* ------------------------------------------------ scoped use of a server
\* get_client on an instance whose port is p: refused without a port; a client
\* class that cannot be imported or constructed is JubaTestFixtureFailedError.
get_client(p, importable) ==
    IF p = None THEN "JubaTestAssertionError"
    ELSE IF ~importable THEN "JubaTestFixtureFailedError"
    ELSE "ok"

\* `with server as cli:` evaluates __enter__: start() and then get_client().
\* An exception leaving __enter__ ends the statement; __exit__ is not called.
Enter(i, answered, importable) ==
    /\ pc = "idle"
    /\ scope = None
    /\ PoolHistoryUnchanged
    /\ UNCHANGED handlevars
    /\ ClearFrames
    /\ UNCHANGED <<pc, cur>>
    /\ UNCHANGED <<cluster_prefix, generated_clusters, rpc_servers, clusters,
                   generated_names, published, cluster_calls, cstart, lists, self_options>>
    /\ LET r == start_sync(i, free_ports, answered)
           g == get_client(r.to.port, importable)
           err == IF r.err # "ok" THEN r.err ELSE g IN
         /\ SetInstance(i, r.to)
         /\ scope' = IF err = "ok" THEN i ELSE None
         /\ last' = Call("__enter__", i, [started |-> r.err = "ok", importable |-> importable], err)

\* Leaving the body, normally or by an exception, runs __exit__: stop().
Exit(i) ==
    /\ pc = "idle"
    /\ scope = i
    /\ PoolHistoryUnchanged
    /\ UNCHANGED handlevars
    /\ ClearFrames
    /\ UNCHANGED <<pc, cur, last_port, options, argv, server_id_cache, log_filter>>
    /\ UNCHANGED <<cluster_prefix, generated_clusters, rpc_servers, clusters,
                   generated_names, published, cluster_calls, cstart, lists, self_options>>
    /\ scope' = None
    /\ LET s == stop_result(i, free_ports) IN
         /\ port' = [port EXCEPT ![i] = s.port]
         /\ backend' = [backend EXCEPT ![i] = s.backend]
         /\ free_ports' = s.free
         /\ last' = Call("__exit__", i, [started |-> TRUE, importable |-> TRUE], s.err)

InitScope == InitWith(<<1, 2>>)

NextScope ==
    \/ \E i \in Servers, answered \in BOOLEAN, importable \in BOOLEAN : Enter(i, answered, importable)
    \/ \E i \in Servers : Exit(i)
    \/ \E i \in Servers : Stop(i)
    \/ \E i \in Servers : Kill(i)
    \/ \E i \in Servers : ProcExit(i)

SpecScope == InitScope /\ [][NextScope]_vars

\* ================================================================== claims
\* C1: on a Node with distinct owned ports, ports_used() equals the number of
\* successful leases minus the number of successful frees at every point, it is
\* the number of ports handed out and not yet returned, and it is 0 once every
\* leased port has been freed.
C1_PortConservation ==
    NoDup(ports) =>
        /\ ports_used = leases - frees
        /\ ports_used = Cardinality(leased_out)
        /\ (leased_out = {} => ports_used = 0)

\* C1 witness: two ports leased and both freed again.
C1_Witness ==
    /\ NoDup(ports) /\ Len(ports) = 2
    /\ leases = 2 /\ frees = 2 /\ leased_out = {}
    /\ last.op = "free_port" /\ last.err = "ok"

\* C2: on a Node whose owned port list has no duplicates, after any sequence of
\* lease_port and free_port calls the free list has no duplicate, every free
\* port is owned, and the leased ports together with the free ports are exactly
\* the owned ports, with no port both leased and free.
C2_PoolPartition ==
    NoDup(ports) =>
        /\ NoDup(free_ports)
        /\ Range(free_ports) \subseteq Range(ports)
        /\ leased_out \cap Range(free_ports) = {}
        /\ leased_out \cup Range(free_ports) = Range(ports)
        /\ leased_out = Range(ports) \ Range(free_ports)

\* C2 witness: a failing free_port call on a pool with one port leased and one free.
C2_Witness ==
    /\ NoDup(ports) /\ Len(ports) = 2
    /\ Cardinality(leased_out) = 1 /\ Len(free_ports) = 1
    /\ last.op = "free_port" /\ last.err = "JubaTestAssertionError"

\* C5: free_port(p) of a port that is free already, or that the Node does not
\* own, fails with JubaTestAssertionError and leaves the free list and
\* ports_used() as they were.
C5_BadFree ==
    [][ (/\ last'.op = "free_port"
         /\ (InSeq(last'.arg, free_ports) \/ ~InSeq(last'.arg, ports)))
        => (/\ last'.err = "JubaTestAssertionError"
            /\ free_ports' = free_ports
            /\ ports_used' = ports_used) ]_vars

\* C5 witness: a double free has been refused while another port is still leased.
C5_Witness ==
    /\ last.op = "free_port" /\ last.err = "JubaTestAssertionError"
    /\ InSeq(last.arg, ports) /\ InSeq(last.arg, free_ports)
    /\ leased_out # {} /\ frees > 0

\* C3: no two Service Instances on the Node hold the same port: the ports of
\* distinct instances that are not None are pairwise different, after any
\* sequence of start, stop, kill, reset and process exits.
C3_DistinctPorts ==
    \A i, j \in Inst :
        (i # j /\ port[i] # None /\ port[j] # None) => port[i] # port[j]

\* C3 witness: two instances hold a port each, one running and one whose
\* process has ended on its own.
C3_Witness ==
    /\ port[1] # None /\ port[2] # None
    /\ is_running(1) /\ backend[2] = "exited"
    /\ last.op = "exit" /\ last.inst = 2

\* C4 (as claimed): between operations, an instance holds a port exactly when
\* is_running() is true.
C4_PortIffRunning ==
    pc = "idle" => \A i \in Inst : (port[i] # None <=> is_running(i))

\* C4 (amended): an instance that is running holds a port, and that port is
\* not in the Node's free list.
C4_RunningHoldsPort ==
    \A i \in Inst :
        is_running(i) => (port[i] # None /\ ~InSeq(port[i], free_ports))

\* C4 witness: an instance is running again after a stop, holding a port.
C4_Witness ==
    /\ is_running(1) /\ port[1] # None
    /\ last.op = "start" /\ last.inst = 1 /\ last.err = "ok"
    /\ backend[2] = "stopped" /\ port[2] = None

\* The instance has been started and neither stop, kill nor reset has been
\* called on it since.
Started(i) == backend[i] \in {"running", "exited"}

StartLeavesAsIs(i) ==
    /\ last'.err = "JubaTestFixtureFailedError"
    /\ free_ports' = free_ports
    /\ port'[i] = port[i]
    /\ backend'[i] = backend[i]
    /\ server_id_cache'[i] = server_id_cache[i]
    /\ log_filter'[i] = log_filter[i]
    /\ pc' = "idle"

\* C6 (as claimed): start() on an instance that has been started, with no
\* stop and reset since, fails with the fixture error and changes nothing.
C6_StartOnce ==
    [][ \A i \in Inst :
          (pc = "idle" /\ last'.op = "start" /\ last'.inst = i /\ Started(i))
          => StartLeavesAsIs(i) ]_vars

\* C6 (amended): start() on an instance whose process is running fails with
\* JubaTestFixtureFailedError, leases no port, spawns nothing and leaves the
\* port, the handle, the identifier cache and the log filter as they were.
C6_StartWhileRunning ==
    [][ \A i \in Inst :
          (pc = "idle" /\ last'.op = "start" /\ last'.inst = i
              /\ backend[i] = "running")
          => StartLeavesAsIs(i) ]_vars

\* C6 witness: start() has been refused on a running instance whose identifier
\* is memoized.
C6_Witness ==
    /\ last.op = "start" /\ last.err = "JubaTestFixtureFailedError"
    /\ probes = 0
    /\ is_running(last.inst)
    /\ server_id_cache[last.inst] # None
    /\ server_id_cache[last.inst] = port[last.inst]

\* A synchronous start has just raised after its last readiness attempt.
StartTimedOut ==
    /\ pc = "idle"
    /\ last.op = "start" /\ last.err = "JubaTestFixtureFailedError"
    /\ probes = StartAttempts

\* C7: when a synchronous start() has used up its readiness attempts and
\* raises, the instance is not running, its port is None, and ports_used() is
\* what it was before the call.
C7_TimeoutForceStops ==
    StartTimedOut =>
        /\ ~is_running(cur)
        /\ port[cur] = None
        /\ ports_used = used_before

\* C7 witness: a start has timed out on a live process while the other
\* instance keeps its port.
C7_Witness ==
    /\ StartTimedOut
    /\ reply.kind = "timeout"
    /\ backend[cur] = "stopped"
    /\ used_before = 1 /\ ports_used = 1

\* C8 (as claimed): the probe returns True for every reply of the server,
\* result or error reply, and False exactly on unreachable or timeout.
C8_AnyReplyReady ==
    ready # "none" =>
        (ready = "True" <=> reply.kind \in {"result", "error_reply"})

\* C8 (amended): the probe returns True exactly on a result and on the error
\* reply "no such method" (code 1); it returns False on every other error
\* reply, on unreachable and on timeout.
C8_ReadyOnResultOrNoMethod ==
    ready # "none" =>
        (ready = "True" <=>
            \/ reply.kind = "result"
            \/ (reply.kind = "error_reply" /\ reply.code = NoMethodError))

\* C8 witness: a "no such method" reply has been classified ready.
C8_Witness ==
    /\ ready = "True"
    /\ reply.kind = "error_reply" /\ reply.code = NoMethodError
    /\ last.op = "start" /\ last.err = "ok"

\* C9: a synchronous start() makes at most 8 probes, sleeps 20 * 2^(k-1) ms
\* before the k-th, returns at the first probe classified ready without
\* sleeping or probing again, and has slept 5100 ms when all 8 fail.
C9_Backoff ==
    /\ probes <= StartAttempts
    /\ Len(sleeps) = probes
    /\ probes > 0 =>
         /\ \A k \in 1..probes : sleeps[k] = 1000 * 20 * Pow2(k - 1)
         /\ pc = "start" => ready = "False" /\ probes < 8
         /\ ready = "True" => pc = "idle" /\ last.err # "JubaTestFixtureFailedError"
         /\ (pc = "idle" /\ ready = "False") =>
               /\ probes = 8
               /\ SumSeq(sleeps) = 1000 * 5100
               /\ \/ last.op = "exit"
                  \/ last.op = "start" /\ last.err = "JubaTestFixtureFailedError"

\* C9 witness: all eight probes have failed.
C9_Witness ==
    /\ probes = 8 /\ ready = "False" /\ pc = "idle"
    /\ Len(sleeps) = 8 /\ sleeps[8] = 2560000

\* wait_for_servers has just returned or raised.
WfsDone == pc = "idle" /\ last.op = "wait_for_servers"

\* The identifier of an expected member: the memoized one, or else that of the
\* port it listens on.
MemberId(i) == IF server_id_cache[i] # None THEN server_id_cache[i] ELSE port[i]

\* Some expected member's identifier was in no member set the router reported
\* during the call.
NeverAppeared == \E k \in 1..Len(waiting) : MemberId(waiting[k]) \notin reported

SeventeenPolls ==
    /\ last.err = "JubaTestFixtureFailedError"
    /\ polls = 17
    /\ Len(sleeps) = 17
    /\ sleeps[1] = 0
    /\ \A k \in 2..17 : sleeps[k] = 1

C11_AllTogether ==
    (WfsDone /\ last.err = "ok") => together

\* C12: after finalize_test_case, from any combination of states of the
\* registered instances (never started, running, stopped, process exited on its
\* own) and for either value of the attach-logs flag, no registered instance is
\* running and every registered instance is Idle again: no process handle, no
\* memoized identity, no log filter.
AllIdle ==
    \A i \in Servers :
        /\ ~is_running(i)
        /\ backend[i] = "None"
        /\ server_id_cache[i] = None
        /\ log_filter[i] = FALSE

C12_FinalizeResetsAll ==
    last.op = "finalize_test_case" => AllIdle

\* What does hold: a finalize_test_case that returns leaves every instance Idle,
\* and one that raises leaves none running.
C12_ResetWhenReturned ==
    /\ (last.op = "finalize_test_case" /\ last.err = "ok") => AllIdle
    /\ last.op = "finalize_test_case" => \A i \in Servers : ~is_running(i)

\* C13: lease_port() removes and returns the lowest-numbered port among the
\* currently free ports, after any sequence of earlier lease_port and free_port
\* calls on a Node whose owned ports were given in ascending order.
Ascending(s) == \A a, b \in 1..Len(s) : a < b => s[a] < s[b]
LeaseReturned == last'.op = "lease_port" /\ last'.err = "ok" /\ leases' = leases + 1
Lowest(S) == CHOOSE x \in S : \A y \in S : x <= y

C13_LeaseLowest ==
    [][(LeaseReturned /\ Ascending(ports)) =>
            /\ last'.arg = Lowest(Range(free_ports))
            /\ Range(free_ports') = Range(free_ports) \ {last'.arg}]_vars

\* C13 (amended): lease_port() removes and returns the port at the head of the
\* free list, the one that has been free longest (freed ports are appended); it
\* is the lowest free port whenever the free list is in ascending order, as it
\* is until a port is freed out of order.
C13_LeaseHead ==
    [][LeaseReturned =>
            /\ last'.arg = Head(free_ports)
            /\ free_ports' = Tail(free_ports)
            /\ (Ascending(free_ports) => last'.arg = Lowest(Range(free_ports)))]_vars

\* C13 witness: on ascending owned ports, a lease has returned a port while a
\* lower-numbered one was free and stays free.
C13_Witness ==
    /\ Ascending(ports)
    /\ last.op = "lease_port" /\ last.err = "ok"
    /\ frees > 0
    /\ \E q \in Range(free_ports) : q < last.arg

\* C14: lease_port() on a Node with no free port fails with JubaSkipTest and
\* leaves the pool unchanged; when start() fails this way the instance ends
\* with no port and no process handle, and a later start() succeeds once a port
\* has been freed.
StartCalled(i) == pc = "idle" /\ last'.op = "start" /\ last'.inst = i
StartSkipped(i) == StartCalled(i) /\ last'.err = "JubaSkipTest"
PoolUntouched == free_ports' = free_ports /\ ports' = ports
StartLeases(i) ==
    /\ last'.err \in {"ok", "pending"}
    /\ port'[i] = Head(free_ports)
    /\ free_ports' = Tail(free_ports)
    /\ backend'[i] = "running"

C14_SkipLeavesNoPort ==
    [][ \A i \in Inst :
          /\ StartSkipped(i) =>
                (free_ports = <<>> /\ PoolUntouched /\ port'[i] = None /\ backend'[i] = "None")
          /\ (StartCalled(i) /\ ~is_running(i) /\ free_ports # <<>>) => StartLeases(i) ]_vars

\* C14 (amended): a start() that fails with JubaSkipTest leaves the pool
\* unchanged and the instance with no process handle and with the port it had
\* before the call: None, unless it still held the port of a process that exited
\* on its own or was reset away. A start() on an instance that is not running
\* leases the head of a non-empty free list and spawns.
C14_SkipKeepsPort ==
    [][ \A i \in Inst :
          /\ StartSkipped(i) =>
                /\ free_ports = <<>> /\ PoolUntouched
                /\ port'[i] = port[i]
                /\ backend'[i] = "None"
                /\ (port[i] # None => backend[i] \in {"None", "exited"})
          /\ (StartCalled(i) /\ ~is_running(i) /\ free_ports # <<>>) => StartLeases(i) ]_vars

\* C14 witness: a start() has failed with JubaSkipTest on an instance that
\* still holds the port of its exited process; the pool is empty.
C14_Witness ==
    /\ last.op = "start" /\ last.err = "JubaSkipTest"
    /\ free_ports = <<>>
    /\ backend[last.inst] = "None"
    /\ port[last.inst] # None

\* C15: stop() on an instance that has no active process (never started,
\* already stopped or killed, or whose process has exited on its own) fails
\* with an error and leaves the Node's port pool unchanged.
StopCalled(i) == pc = "idle" /\ last'.op = "stop" /\ last'.inst = i
StopRefused(i) ==
    /\ last'.err # "ok"
    /\ free_ports' = free_ports
    /\ port' = port
    /\ backend' = backend

C15_StopNeedsActive ==
    [][ \A i \in Inst : (StopCalled(i) /\ ~is_running(i)) => StopRefused(i) ]_vars

\* C15 (amended): stop() fails and changes nothing on an instance with no
\* process handle (never started, or reset: AttributeError) and on one whose
\* handle was stopped or killed already (JubaTestFixtureFailedError). On an
\* instance whose process has exited on its own it succeeds like a stop of a
\* running one: the handle is finalized and the port goes back to the pool.
C15_StopNeedsHandle ==
    [][ \A i \in Inst :
          /\ (StopCalled(i) /\ backend[i] = "None") =>
                (StopRefused(i) /\ last'.err = "AttributeError")
          /\ (StopCalled(i) /\ backend[i] = "stopped") =>
                (StopRefused(i) /\ last'.err = "JubaTestFixtureFailedError")
          /\ (StopCalled(i) /\ backend[i] = "exited") =>
                /\ last'.err = "ok"
                /\ backend'[i] = "stopped"
                /\ free_ports' = Append(free_ports, port[i])
                /\ port'[i] = None ]_vars

\* C15 witness: a second stop() has been refused on a stopped instance whose
\* port is back in the pool.
C15_Witness ==
    /\ last.op = "stop" /\ last.err = "JubaTestFixtureFailedError"
    /\ backend[last.inst] = "stopped"
    /\ port[last.inst] = None
    /\ last_port[last.inst] \in Range(free_ports)

\* C16: for every option list, the emitted argument vector contains each
\* distinct option key exactly once, immediately followed by the value of that
\* key's first occurrence, with the keys in the order of their first
\* occurrence; the value of a later duplicate is never emitted for that key.
\* Keys are the texts the arguments carry; the vector is read as key, value pairs.
KeyTexts(opts) == {str(opts[k][1]) : k \in 1..Len(opts)}
FirstAt(opts, t) == CHOOSE k \in 1..Len(opts) :
                        /\ str(opts[k][1]) = t
                        /\ \A j \in 1..(k - 1) : str(opts[j][1]) # t
Emitted(opts, out) ==
    /\ Len(out) = 2 * Cardinality(KeyTexts(opts))
    /\ \A t \in KeyTexts(opts) :
          /\ Cardinality({j \in 1..(Len(out) \div 2) : out[2 * j - 1] = t}) = 1
          /\ \A j \in 1..(Len(out) \div 2) :
                out[2 * j - 1] = t => out[2 * j] = str(opts[FirstAt(opts, t)][2])
    /\ \A j1, j2 \in 1..(Len(out) \div 2) :
          j1 < j2 => FirstAt(opts, out[2 * j1 - 1]) < FirstAt(opts, out[2 * j2 - 1])

C16_FirstOccurrenceWins ==
    last.op = "_flatten_options" => Emitted(options[last.inst], last.arg)

\* C16 witness: three options whose first and third share a key with different
\* values have been flattened to two pairs.
C16_Witness ==
    /\ last.op = "_flatten_options"
    /\ Len(options[last.inst]) = 3
    /\ str(options[last.inst][1][1]) = str(options[last.inst][3][1])
    /\ str(options[last.inst][1][2]) # str(options[last.inst][3][2])
    /\ str(options[last.inst][2][1]) # str(options[last.inst][1][1])
    /\ Len(last.arg) = 4
    /\ last.arg[2] = str(options[last.inst][1][2])

\* C17: for every start(), whatever option list the instance was configured
\* with and however often it was started and stopped before, the argument
\* vector of the spawned process contains --rpc-port followed by the port
\* leased for that start.
HasRpcPort(args, p) ==
    \E k \in 1..(Len(args) - 1) :
        k % 2 = 0 /\ args[k] = "--rpc-port" /\ args[k + 1] = ToString(p)

C17_RpcPortEmitted ==
    \A i \in Inst : backend[i] = "running" => HasRpcPort(argv[i], port[i])

\* What does hold: the leased port is emitted when no configured option has
\* the key --rpc-port, and otherwise the value of the first configured one is.
C17_RpcPortUnlessConfigured ==
    \A i \in Inst : backend[i] = "running" =>
        IF "--rpc-port" \in KeyTexts(options[i])
        THEN \E k \in 1..(Len(argv[i]) - 1) :
                /\ k % 2 = 0 /\ argv[i][k] = "--rpc-port"
                /\ argv[i][k + 1] = str(options[i][FirstAt(options[i], "--rpc-port")][2])
        ELSE HasRpcPort(argv[i], port[i])

\* C18: resetting a stopped instance clears its memoized identity and its log
\* filter; after a stop followed by a new start the first get_id() queries the
\* newly started server instead of returning the identifier memoized in an
\* earlier run, so a returned identity never belongs to an earlier run's port.
C18_FreshIdentity ==
    [][ \A i \in Servers :
          /\ (last'.op = "reset" /\ last'.inst = i /\ backend[i] = "stopped") =>
                (server_id_cache'[i] = None /\ log_filter'[i] = FALSE /\ backend'[i] = "None")
          /\ (StartCalled(i) /\ last'.err \in {"ok", "pending"}) =>
                (server_id_cache'[i] = None /\ log_filter'[i] = FALSE)
          /\ (last'.op = "get_id" /\ last'.inst = i /\ last'.err = "ok") =>
                /\ last'.arg = last_port[i]
                /\ server_id_cache[i] = None => (is_running(i) /\ last'.arg = port[i])
          /\ (server_id_cache[i] # None => server_id_cache[i] = last_port[i]) ]_vars

\* C18 witness: a server that ran on port 1, was stopped and started again on
\* port 2 has returned the identifier of port 2.
C18_Witness ==
    /\ last.op = "get_id" /\ last.err = "ok" /\ last.inst = 1
    /\ last.arg = 2 /\ port[1] = 2 /\ server_id_cache[1] = 2
    /\ backend[2] = "None" /\ last_port[2] = None
    /\ 1 \in Range(free_ports)

\* C19: get_id() on an instance that is not Ready (never started, or stopped or
\* killed and not restarted) fails with the invariant-violation error
\* (JubaTestAssertionError) and never returns an identifier.
NotReady(i) == backend[i] \in {"None", "stopped"}
GetIdCalled(i) == pc = "idle" /\ last'.op = "get_id" /\ last'.inst = i

C19_GetIdNeedsReady ==
    [][ \A i \in Servers :
          (GetIdCalled(i) /\ NotReady(i)) =>
              (last'.err = "JubaTestAssertionError" /\ last'.arg = None) ]_vars

\* The part about identifiers alone: get_id() returns none on an instance that
\* is not Ready.
C19_NoIdUnlessReady ==
    [][ \A i \in Servers : (GetIdCalled(i) /\ NotReady(i)) => last'.err # "ok" ]_vars

\* What does hold: on an instance that is not Ready, get_id() returns the
\* identifier memoized during its last run if there is one, and otherwise fails
\* with the error of the RPC layer; it never raises JubaTestAssertionError.
C19_MemoizedOrRpcError ==
    [][ \A i \in Servers :
          (GetIdCalled(i) /\ NotReady(i)) =>
              /\ last'.err # "JubaTestAssertionError"
              /\ IF server_id_cache[i] # None
                 THEN last'.err = "ok" /\ last'.arg = server_id_cache[i]
                 ELSE last'.err = "RPCError" ]_vars

\* C20: on one process handle, over any sequence of start, wait and stop calls,
\* at most one start() ever succeeds: every start() after the first fails with
\* JubaTestFixtureFailedError, also after wait() or stop() has ended the
\* process, so captured output is never overwritten by a second run.
C20_StartOncePerHandle ==
    /\ lp_spawns <= 1
    /\ lp_stdout \in {None, 1}

\* What does hold: start() is refused exactly while the handle has a _process,
\* and the captured output is that of the latest spawn to be waited for or stopped.
C20_StartRefusedWhileActive ==
    [][last'.op = "LocalSubprocess.start" =>
            /\ lp_process # "None" =>
                  (last'.err = "JubaTestFixtureFailedError" /\ UNCHANGED handlevars)
            /\ lp_process = "None" =>
                  (last'.err = "ok" /\ lp_process' = "running" /\ lp_spawns' = lp_spawns + 1)]_vars

\* C21: stop() on a started handle whose process has exited before the signal
\* is delivered returns without error ("no such process" is swallowed); after
\* every stop() on a started handle, whether the signal was delivered, met "no
\* such process" or failed with another OS error that is raised again, stdout
\* and stderr are populated and the handle reports not running.
C21_StopFinalizes ==
    [][(last'.op = "LocalSubprocess.stop" /\ lp_process # "None") =>
            /\ last'.arg[2] \in {"delivered", "ESRCH"} => last'.err = "ok"
            /\ last'.arg[2] = "EPERM" => last'.err = "OSError"
            /\ lp_stdout' # None
            /\ lp_stdout' = lp_spawns
            /\ lp_process' = "None"
            /\ ~local_is_running([process |-> lp_process', stdout |-> lp_stdout'])]_vars

\* C21 witness: a stop whose signal met "no such process" has returned
\* normally with the output of the run captured.
C21_Witness ==
    /\ last.op = "LocalSubprocess.stop" /\ last.err = "ok"
    /\ last.arg[2] = "ESRCH"
    /\ lp_spawns = 1 /\ lp_stdout = 1
    /\ lp_process = "None"

\* C21 second witness: a stop whose signal failed with another OS error has
\* raised it with the output captured all the same.
C21_WitnessRaised ==
    /\ last.op = "LocalSubprocess.stop" /\ last.err = "OSError"
    /\ lp_stdout = lp_spawns /\ lp_spawns >= 1
    /\ lp_process = "None"

\* C22: no clustered-server member of a Cluster Fixture is started before that
\* fixture's config publish has succeeded; if the publish fails, fixture
\* construction raises JubaTestFixtureFailedError, no fixture object is
\* returned, and no member has been added to it or started. (When jubaconfig is
\* not installed no publish is attempted and construction raises JubaSkipTest.)
ClusterCalled == last'.op = "cluster"
HasStarted(i) == last_port[i] # None

C22_PublishBeforeMembers ==
    [][ /\ \A c \in 1..Len(clusters') : clusters'[c].call \in published'
        /\ \A i \in Servers : HasStarted(i)' =>
              \E c \in 1..Len(clusters') :
                  i \in Range(clusters'[c].servers) /\ clusters'[c].call \in published'
        /\ (ClusterCalled /\ last'.arg.available /\ last'.arg.returncode # 0) =>
              /\ last'.err = "JubaTestFixtureFailedError"
              /\ clusters' = clusters /\ rpc_servers' = rpc_servers
              /\ UNCHANGED <<instvars, free_ports>>
        /\ (ClusterCalled /\ ~last'.arg.available) =>
              /\ last'.err = "JubaSkipTest"
              /\ clusters' = clusters /\ rpc_servers' = rpc_servers
              /\ UNCHANGED <<instvars, free_ports>>
        /\ (ClusterCalled /\ last'.arg.available /\ last'.arg.returncode = 0) =>
              /\ last'.err = "ok"
              /\ Len(clusters') = Len(clusters) + 1
              /\ clusters'[Len(clusters')].servers = <<>> ]_vars

\* C22 witness: after a construction whose publish failed, a member of a
\* fixture constructed later is running.
C22_Witness ==
    /\ last.op = "start" /\ last.err = "ok"
    /\ is_running(last.inst)
    /\ \E c \in 1..Len(clusters) :
          /\ last.inst \in Range(clusters[c].servers)
          /\ clusters[c].call = 2
          /\ 1 \notin published

\* C23: any two cluster names generated by one coordinator are distinct, for
\* any sequence of cluster() calls without a given name interleaved with
\* test-case and test-class teardowns and with cluster constructions that fail:
\* the generation counter strictly increases on each generation and is never
\* reset or decreased.
C23_UniqueNames ==
    [][ /\ NoDup(generated_names')
        /\ Len(generated_names') = generated_clusters'
        /\ generated_clusters' >= generated_clusters
        /\ (ClusterCalled /\ last'.arg.generated) =>
              /\ generated_clusters' = generated_clusters + 1
              /\ generated_names' = Append(generated_names, last'.arg.name)
        /\ ~(ClusterCalled /\ last'.arg.generated) =>
              UNCHANGED <<generated_clusters, generated_names>> ]_vars

\* C23 witness: three names have been generated on a coordinator with a
\* prefix, the second of them for a construction that failed, with a test-class
\* teardown behind it that emptied a registry.
C23_Witness ==
    /\ Len(generated_names) = 3
    /\ cluster_prefix = "t-1"
    /\ 2 \notin published
    /\ Len(clusters) = 2
    /\ rpc_servers = <<>> /\ Members # {}
    /\ last.op = "cluster" /\ last.arg.generated

\* The `with` statement on instance i has been left, and its entry had started i.
ScopeLeft(i) ==
    /\ last.op \in {"__enter__", "__exit__"}
    /\ last.inst = i
    /\ last.arg.started
    /\ scope = None

\* C24: once the entry of a scoped use has started the instance, the instance
\* is stopped and its port is back in the pool however the scope is left,
\* also when obtaining the client fails after start() has succeeded.
C24_StoppedOnEveryExit ==
    \A i \in Servers :
        ScopeLeft(i) => /\ ~is_running(i)
                        /\ port[i] = None
                        /\ last_port[i] \in Range(free_ports)

\* The part of C24 the code does keep: a scope left through __exit__.
C24_StoppedOnExit ==
    \A i \in Servers :
        (ScopeLeft(i) /\ last.op = "__exit__") =>
            /\ ~is_running(i)
            /\ port[i] = None
            /\ last_port[i] \in Range(free_ports)

\* The entry started the instance and then failed to obtain the client.
C24_EntryFailedAfterStart ==
    \E i \in Servers :
        /\ ScopeLeft(i)
        /\ last.op = "__enter__"
        /\ last.err = "JubaTestFixtureFailedError"
        /\ is_running(i)
        /\ port[i] # None

\* The instance built by the step just taken, if it built one.
Built(i) == last.op \in {"server", "server_standalone", "proxy"} /\ last.inst = i

\* Each instance's options are what its list object holds.
OptionsCoherent == \A i \in Inst : options[i] = lists[self_options[i]]

\* C25: building, starting or stopping an instance changes no list object
\* that existed before the step: not the options of another instance, not the
\* caller's list or a default list, and not the instance's own list in start()
\* or stop(); only the instance being built comes to refer to a (new) list.
C25_NoAliasing ==
    [][/\ \A id \in DOMAIN lists : lists'[id] = lists[id]
       /\ \A i \in Inst : ~Built(i)' => /\ self_options'[i] = self_options[i]
                                        /\ options'[i] = options[i]
       /\ OptionsCoherent']_vars

\* Both servers were built from the caller's non-empty list, each refers to a
\* list object of its own, and one of them has just been started.
C25_Witness ==
    /\ lists[CallerList] # <<>>
    /\ last.op = "start" /\ last.err = "ok"
    /\ \A i \in Servers :
          /\ i \in Range(rpc_servers)
          /\ Len(options[i]) > Len(lists[CallerList])
          /\ SubSeq(options[i], 1, Len(lists[CallerList])) = lists[CallerList]
    /\ self_options[1] # self_options[2]
    /\ \A i \in Servers : self_options[i] \notin Shared

\* The step is a turn of the loop of JubaCluster.start.
MemberTurn == pc = "cluster" /\ last'.op = "JubaCluster.start"

\* C26: JubaCluster.start starts the members one at a time in the order they
\* were added: turn k starts the k-th member and touches no other instance;
\* when it succeeds the loop goes on to member k+1 or returns after the last;
\* when it fails the error leaves start() in that same step, the members
\* before k are running with their ports leased, and no other member is
\* started or stopped.
C26_OrderedNoRollback ==
    [][MemberTurn =>
         LET c == cstart.c
             k == cstart.k
             members == clusters[c].servers
             m == members[k] IN
         /\ last'.inst = m
         /\ last'.arg.k = k
         /\ \A j \in 1..(k - 1) : is_running(members[j]) /\ port[members[j]] # None
         /\ \A i \in Inst \ {m} : /\ backend'[i] = backend[i]
                                  /\ port'[i] = port[i]
                                  /\ argv'[i] = argv[i]
         /\ \A j \in 1..(k - 1) : port[members[j]] \notin Range(free_ports')
         /\ (last'.arg.member = "ok" /\ k < Len(members)) =>
               /\ pc' = "cluster"
               /\ cstart' = [c |-> c, k |-> k + 1]
               /\ last'.err = "pending"
         /\ (last'.arg.member = "ok" /\ k = Len(members)) =>
               /\ pc' = "idle"
               /\ last'.err = "ok"
         /\ last'.arg.member # "ok" =>
               /\ pc' = "idle"
               /\ cstart'.c = None
               /\ last'.err = last'.arg.member]_vars

\* start() of a two-member cluster failed at its second member, which timed
\* out and was stopped; the first member is running with its port leased.
C26_Witness ==
    /\ last.op = "JubaCluster.start"
    /\ last.arg.k = 2
    /\ last.err = "JubaTestFixtureFailedError"
    /\ pc = "idle"
    /\ LET members == clusters[last.arg.c].servers IN
         /\ Len(members) = 2
         /\ is_running(members[1])
         /\ port[members[1]] # None
         /\ port[members[1]] \notin Range(free_ports)
         /\ ~is_running(members[2])
         /\ backend[members[2]] = "stopped"
====
